---- MODULE Spec2Model ----
(***************************************************************************)
(* bingo_elastic/model/record.py: the record construction pipeline         *)
(* (IndigoRecord.__init__, WithIndigoObject.__set__, as_dict,              *)
(* as_indigo_object) and the query-reaction sanitizer                      *)
(* (sanitize_indigo_query_molecule, sanitize_indigo_query_reaction,        *)
(* IndigoRecordReactionTemplate.__init__).                                 *)
(*                                                                         *)
(* Python strings whose characters matter (atom symbols, fingerprint bit   *)
(* lists, cmf) are sequences of one-character strings.  Python values of   *)
(* different types are tagged records, so that None, "" and [] differ.     *)
(***************************************************************************)
EXTENDS Integers, Sequences, FiniteSets

VARIABLES
    \* sanitize_indigo_query_molecule, statement by statement
    query_mol,        \* the molecule being cleaned (mutated in place)
    atom_it,          \* position of the iterateAtoms() iterator
    atoms_to_remove,  \* the local list of line 17
    san_pc,           \* position in sanitize_indigo_query_molecule
    remove_log,       \* every removeAtoms call made: its argument, and the iterator position
    mol_in,           \* the molecule as it was passed in
    \* record construction
    kind,             \* IndigoRecordMolecule / IndigoRecordReaction / IndigoRecordReactionTemplate
    kwargs,           \* the keyword arguments, in the order passed
    kwargs_in,        \* the keyword arguments as the caller passed them
    objs,             \* the structure objects: caller's, sanitized (template), clone
    pc,               \* position in the constructor
    kw_i,             \* index of the keyword argument being set by line 196
    rec,              \* the instance __dict__
    value_dup,        \* which object the local value_dup of __set__ refers to
    exc,              \* the exception that left the constructor, if any
    handler_calls,    \* how often instance.error_handler was invoked
    step_status,      \* how each step of WithIndigoObject.__set__ ended in this construction
    caller_in,        \* the caller's structure object as it was supplied
    serialized,       \* the integer sequence serialize() returned at population
    out               \* result of the last as_dict / as_indigo_object call

san_vars == <<query_mol, atom_it, atoms_to_remove, san_pc, remove_log, mol_in>>
rec_vars == <<kind, kwargs, kwargs_in, objs, pc, kw_i, rec, value_dup, exc, handler_calls,
              step_status, caller_in, serialized, out>>
vars == <<query_mol, atom_it, atoms_to_remove, san_pc, remove_log, mol_in,
          kind, kwargs, kwargs_in, objs, pc, kw_i, rec, value_dup, exc, handler_calls,
          step_status, caller_in, serialized, out>>

(***************************************************************************)
(* Bounds of the model.                                                    *)
(***************************************************************************)
MaxAtoms == 2
MaxMols == 1
MaxComps == 2
MaxBytes == 2
MaxKwargs == 3

SeqUpTo(S, n) == UNION {[1..k -> S] : k \in 0..n}
Range(s) == {s[i] : i \in DOMAIN s}

(***************************************************************************)
(* Python values.                                                          *)
(***************************************************************************)
Absent == [tag |-> "absent"]            \* the key is not in __dict__
None == [tag |-> "None"]
Str(s) == [tag |-> "str", chars |-> s]  \* s: sequence of characters
List(l) == [tag |-> "list", items |-> l]
IntV(n) == [tag |-> "int", n |-> n]
Bool(b) == [tag |-> "bool", b |-> b]
Fn(f) == [tag |-> "function", f |-> f]
Obj(ref) == [tag |-> "IndigoObject", ref |-> ref]

\* bool(v) as Python's `if v:` evaluates it
Truthy(v) ==
    CASE v.tag = "None" -> FALSE
      [] v.tag = "absent" -> FALSE
      [] v.tag = "str" -> v.chars # <<>>
      [] v.tag = "list" -> v.items # <<>>
      [] v.tag = "int" -> v.n # 0
      [] v.tag = "bool" -> v.b
      [] OTHER -> TRUE

(***************************************************************************)
(* str(int), " ".join, str.split(" ") and int(str), character by           *)
(* character.                                                              *)
(***************************************************************************)
Digits == <<"0", "1", "2", "3", "4", "5", "6", "7", "8", "9">>

RECURSIVE StrOfNat(_)
StrOfNat(n) ==
    IF n < 10 THEN <<Digits[n + 1]>>
    ELSE StrOfNat(n \div 10) \o <<Digits[(n % 10) + 1]>>

RECURSIVE Join(_, _)
Join(sep, strs) ==
    IF strs = <<>> THEN <<>>
    ELSE IF Len(strs) = 1 THEN strs[1]
    ELSE strs[1] \o sep \o Join(sep, Tail(strs))

\* s.split(sep) for a one-character sep: always at least one token, "" included
RECURSIVE SplitAcc(_, _, _)
SplitAcc(s, sep, cur) ==
    IF s = <<>> THEN <<cur>>
    ELSE IF s[1] = sep THEN <<cur>> \o SplitAcc(Tail(s), sep, <<>>)
    ELSE SplitAcc(Tail(s), sep, Append(cur, s[1]))

Split(s, sep) == SplitAcc(s, sep, <<>>)

DigitVal(c) == (CHOOSE d \in 1..10 : Digits[d] = c) - 1
IsDecimal(tok) == tok # <<>> /\ \A i \in DOMAIN tok : tok[i] \in Range(Digits)

RECURSIVE NatOfStr(_)
NatOfStr(tok) ==
    IF Len(tok) = 1 THEN DigitVal(tok[1])
    ELSE 10 * NatOfStr(SubSeq(tok, 1, Len(tok) - 1)) + DigitVal(tok[Len(tok)])

\* [int(t) for t in toks]: the list, or ValueError when some token is no integer
IntsOf(toks) ==
    IF \A i \in DOMAIN toks : IsDecimal(toks[i])
    THEN [ok |-> TRUE, ints |-> [i \in DOMAIN toks |-> NatOfStr(toks[i])]]
    ELSE [ok |-> FALSE, ints |-> <<>>]

(***************************************************************************)
(* Molecules of the structure backend.  A molecule is a pool of atom       *)
(* slots: removing an atom frees its slot and leaves every other atom at   *)
(* its index; an atom iterator holds a slot index and moves to the next    *)
(* occupied slot.                                                          *)
(***************************************************************************)
Atom(sym, pseudo, rsite, cons) ==
    [symbol |-> sym, pseudo |-> pseudo, rsite |-> rsite, constraints |-> cons]

Mol(atoms) == [atoms |-> atoms, live |-> DOMAIN atoms]

Begin == 0
End(mol) == Len(mol.atoms) + 1

\* the first occupied slot after idx, or End
vertexNext(mol, idx) ==
    IF \E j \in mol.live : j > idx
    THEN CHOOSE j \in mol.live : j > idx /\ \A k \in mol.live : k > idx => j <= k
    ELSE End(mol)

removeAtoms(mol, indices) == [mol EXCEPT !.live = @ \ Range(indices)]

countAtoms(mol) == Cardinality(mol.live)

removeConstraints(atom, name) == [atom EXCEPT !.constraints = @ \ {name}]

\* mol.clone(): a new molecule holding the atoms of mol, renumbered without gaps
RECURSIVE LiveAtoms(_, _)
LiveAtoms(mol, idx) ==
    LET n == vertexNext(mol, idx)
    IN  IF n = End(mol) THEN <<>> ELSE <<mol.atoms[n]>> \o LiveAtoms(mol, n)

cloneMol(mol) == Mol(LiveAtoms(mol, Begin))

(***************************************************************************)
(* sanitize_indigo_query_molecule                                          *)
(***************************************************************************)
Contains(s, c) == \E i \in DOMAIN s : s[i] = c

AmbiguousSymbols ==
    {<<"A">>, <<"Q">>, <<"X">>, <<"M">>, <<"A", "H">>, <<"Q", "H">>, <<"X", "H">>,
     <<"M", "H">>, <<"N", "O", "T">>, <<"R">>, <<"*">>}

\* lines 19-23: what the loop body does to the atom itself
scan_atom(atom) ==
    IF atom.pseudo \/ atom.rsite THEN atom
    ELSE removeConstraints(removeConstraints(atom, "substituents"), "substituents-as-drawn")

to_remove_no_list(atom) ==
    atom.pseudo \/ atom.rsite \/ atom.symbol \in AmbiguousSymbols

\* lines 18-28: the value of to_remove at line 29
to_remove(atom) ==
    IF atom.pseudo \/ atom.rsite THEN TRUE
    ELSE \/ atom.symbol \in AmbiguousSymbols
         \/ (Contains(atom.symbol, "[") /\ Contains(atom.symbol, "]"))

\* lines 17-30: the list atoms_to_remove at line 32, for the atom at idx
marked_atoms(mol, idx) == IF to_remove(mol.atoms[idx]) THEN <<idx>> ELSE <<>>

\* lines 17-32: one execution of the loop body, for the atom at idx
loop_body(mol, idx) ==
    removeAtoms([mol EXCEPT !.atoms[idx] = scan_atom(@)], marked_atoms(mol, idx))

RECURSIVE sanitize_from(_, _)
sanitize_from(mol, idx) ==
    LET n == vertexNext(mol, idx)
    IN  IF n = End(mol) THEN mol ELSE sanitize_from(loop_body(mol, n), n)

\* lines 16-33: the molecule the call leaves behind (and returns)
sanitize_indigo_query_molecule(mol) == sanitize_from(mol, Begin)

(***************************************************************************)
(* Atoms and molecules the sanitizer is run on.                            *)
(***************************************************************************)
NoCons == {}
PlainSymbols == {<<"C">>, <<"N">>}
ListSymbol == <<"[", "C", ",", "N", "]">>

SanAtoms ==
    {Atom(s, FALSE, FALSE, NoCons) : s \in PlainSymbols \cup AmbiguousSymbols \cup {ListSymbol}}
    \cup {Atom(<<"C">>, FALSE, FALSE, {"substituents"}),
          Atom(<<"Q">>, FALSE, FALSE, {"substituents", "substituents-as-drawn"}),
          Atom(<<"P", "h">>, TRUE, FALSE, NoCons),
          Atom(<<"R">>, FALSE, TRUE, NoCons)}

SanMolecules == {Mol(a) : a \in SeqUpTo(SanAtoms, MaxAtoms)}

(***************************************************************************)
(* sanitize_indigo_query_molecule, one statement at a time.                *)
(***************************************************************************)
\* line 16: the iterator yields the next atom, or is exhausted
ForNextAtom ==
    /\ san_pc = "for"
    /\ atom_it' = vertexNext(query_mol, atom_it)
    /\ san_pc' = IF atom_it' = End(query_mol) THEN "return" ELSE "scan"
    /\ UNCHANGED <<query_mol, atoms_to_remove, remove_log, mol_in>>
    /\ UNCHANGED rec_vars

\* lines 17-30
ScanAtom ==
    /\ san_pc = "scan"
    /\ atoms_to_remove' = marked_atoms(query_mol, atom_it)
    /\ query_mol' = [query_mol EXCEPT !.atoms[atom_it] = scan_atom(@)]
    /\ san_pc' = "remove"
    /\ UNCHANGED <<atom_it, remove_log, mol_in>>
    /\ UNCHANGED rec_vars

\* line 32
RemoveAtoms ==
    /\ san_pc = "remove"
    /\ query_mol' = removeAtoms(query_mol, atoms_to_remove)
    /\ remove_log' = Append(remove_log, [indices |-> atoms_to_remove,
                                         scan_done |-> atom_it = End(query_mol)])
    /\ san_pc' = "for"
    /\ UNCHANGED <<atom_it, atoms_to_remove, mol_in>>
    /\ UNCHANGED rec_vars

\* line 33
ReturnMol ==
    /\ san_pc = "return"
    /\ san_pc' = "returned"
    /\ UNCHANGED <<query_mol, atom_it, atoms_to_remove, remove_log, mol_in>>
    /\ UNCHANGED rec_vars

(***************************************************************************)
(* Structure objects of the backend, as record construction sees them.     *)
(* desc holds what the backend answers when the call succeeds; whether a   *)
(* call raises IndigoException is chosen at the call.                      *)
(***************************************************************************)
MOL_TYPES == {"#02: <molecule>", "#03: <query reaction>", "#12: <RDFMolecule>"}
REAC_TYPES == {"#04: <reaction>", "#05: <query reaction>"}
OtherTypes == {"#03: <query molecule>"}

Desc(simBits, subBits, bytes, name, type, comps, whole, bad) ==
    [simBits |-> simBits, subBits |-> subBits, bytes |-> bytes, name |-> name,
     type |-> type, comps |-> comps, whole |-> whole, bad |-> bad]

NoRxn == [reactants |-> <<>>, products |-> <<>>]
NoText == <<>>
Structure(desc, rxn) == [desc |-> desc, aromatic |-> FALSE, rxn |-> rxn, text |-> NoText]
NoObj == [desc |-> "none"]

Refs == {"caller", "cleaned", "dup"}

\* the text forms of a molecule and of a reaction: a count line, then one block per
\* component, each with its own count line and one line per atom
atomLine(atom) ==
    <<"atom">> \o atom.symbol
    \o (IF atom.pseudo THEN <<"pseudo">> ELSE <<>>)
    \o (IF atom.rsite THEN <<"rsite">> ELSE <<>>)
    \o (IF "substituents" \in atom.constraints THEN <<"s">> ELSE <<>>)
    \o (IF "substituents-as-drawn" \in atom.constraints THEN <<"s*">> ELSE <<>>)

RECURSIVE Concat(_)
Concat(seqs) == IF seqs = <<>> THEN <<>> ELSE seqs[1] \o Concat(Tail(seqs))

molBlock(mol) ==
    LET atoms == LiveAtoms(mol, Begin)
    IN  <<"$MOL">> \o StrOfNat(Len(atoms)) \o Concat([i \in DOMAIN atoms |-> atomLine(atoms[i])])

rxnfile(rxn) ==
    <<"$RXN">> \o StrOfNat(Len(rxn.reactants)) \o <<" ">> \o StrOfNat(Len(rxn.products))
    \o Concat([i \in DOMAIN rxn.reactants |-> molBlock(rxn.reactants[i])])
    \o Concat([i \in DOMAIN rxn.products |-> molBlock(rxn.products[i])])

(***************************************************************************)
(* sanitize_indigo_query_reaction                                          *)
(***************************************************************************)
sanitize_component_in_place(mol) ==
    [orig |-> sanitize_indigo_query_molecule(mol),
     cleaned |-> sanitize_indigo_query_molecule(mol)]

\* lines 42-43 and 47-48: what happens to a component of the caller's reaction (orig)
\* and the molecule that is offered to the new reaction (cleaned)
sanitize_component(mol) ==
    [orig |-> mol, cleaned |-> sanitize_indigo_query_molecule(cloneMol(mol))]

\* lines 41-45 and 46-50: one side of the reaction
sanitize_side(mols) ==
    LET done == [i \in DOMAIN mols |-> sanitize_component(mols[i])]
        KeepsAtom(c) == countAtoms(c.cleaned) > 0
        kept == SelectSeq(done, KeepsAtom)
    IN  [orig |-> [i \in DOMAIN mols |-> done[i].orig],
         added |-> [i \in DOMAIN kept |-> kept[i].cleaned]]

no_usable_either(cloned) == Len(cloned.products) = 0 \/ Len(cloned.reactants) = 0

\* line 51
no_usable(cloned) == Len(cloned.products) = 0 /\ Len(cloned.reactants) = 0

\* lines 39-53: whether ValueError is raised, the text the result is loaded from, and
\* the state the call leaves the caller's reaction in
sanitize_indigo_query_reaction(rxn) ==
    LET r == sanitize_side(rxn.reactants)
        p == sanitize_side(rxn.products)
        cloned == [reactants |-> r.added, products |-> p.added]
    IN  [raised |-> no_usable(cloned),
         cloned |-> cloned,
         text |-> rxnfile(cloned),
         orig |-> [reactants |-> r.orig, products |-> p.orig]]

(***************************************************************************)
(* The instance: __dict__, attribute reads, keyword arguments.             *)
(***************************************************************************)
Keys ==
    {"error_handler", "skip_errors", "record_id", "name", "rawData",
     "sim_fingerprint", "sim_fingerprint_len", "sub_fingerprint", "sub_fingerprint_len",
     "cmf", "hash", "has_error", "original_qrxn", "_sort"}

EmptyDict == [k \in Keys |-> Absent]

\* lines 154-162: attributes the class defines all default to None
InstanceAttr(d, k) == IF d[k] = Absent THEN None ELSE d[k]

Kw(key, val) == [key |-> key, val |-> val]
HasKey(kws, key) == \E i \in DOMAIN kws : kws[i].key = key
KwIndex(kws, key) == CHOOSE i \in DOMAIN kws : kws[i].key = key
\* kwargs.get(key, default)
KwGet(kws, key, default) == IF HasKey(kws, key) THEN kws[KwIndex(kws, key)].val ELSE default
\* kwargs[key] = val: an existing key keeps its place, a new key goes last
KwSet(kws, key, val) ==
    IF HasKey(kws, key) THEN [kws EXCEPT ![KwIndex(kws, key)].val = val]
    ELSE Append(kws, Kw(key, val))

\* lines 62-66: whether the handler is called, and whether the error leaves check_error
check_error(handler) ==
    IF Truthy(handler)
    THEN [called |-> TRUE, raises |-> handler = Fn("raising_handler")]
    ELSE [called |-> FALSE, raises |-> TRUE]

NoExc == [type |-> "none", at |-> "none"]
Exc(type, at) == [type |-> type, at |-> at]

Steps == {"clone", "aromatize", "sim", "sub", "serialize", "name", "hash", "valence"}

(***************************************************************************)
(* WithIndigoObject.__set__: what each step writes into the instance.      *)
(***************************************************************************)
\* line 82: value.clone() is a new object
clone_target(ref) == "dup"

\* lines 96-103 for fingerprint kind f, given the text oneBitsList() returned:
\* the instance afterwards, and whether int() raised ValueError
fp_fields(d, f, bits) ==
    LET fp == IF f = "sim" THEN "sim_fingerprint" ELSE "sub_fingerprint"
        ln == IF f = "sim" THEN "sim_fingerprint_len" ELSE "sub_fingerprint_len"
        d0 == [d EXCEPT ![fp] = List(<<>>), ![ln] = IntV(0)]
        parsed == IntsOf(Split(bits, " "))
    IN  IF bits = <<>> THEN [ok |-> TRUE, d |-> d0]
        ELSE IF parsed.ok
        THEN [ok |-> TRUE,
              d |-> [d0 EXCEPT ![fp] = List(parsed.ints), ![ln] = IntV(Len(parsed.ints))]]
        ELSE [ok |-> FALSE, d |-> d0]

fp_next_abort(f, failed) ==
    IF failed THEN "serialize" ELSE IF f = "sim" THEN "fp_sub" ELSE "serialize"

\* lines 94-107: where control goes when the body of the loop is left for kind f
\* without an exception leaving check_error
fp_next(f, failed) == IF f = "sim" THEN "fp_sub" ELSE "serialize"

cmf_of_unseparated(bytes) == Join(<<>>, [i \in DOMAIN bytes |-> StrOfNat(bytes[i])])

\* line 110
cmf_of(bytes) == Join(<<" ">>, [i \in DOMAIN bytes |-> StrOfNat(bytes[i])])

RECURSIVE SortSet(_)
SortSet(S) ==
    IF S = {} THEN <<>>
    ELSE LET m == CHOOSE x \in S : \A y \in S : x <= y
         IN  <<m>> \o SortSet(S \ {m})

hash_field_unsorted(type, comps, whole) ==
    IF type \in MOL_TYPES THEN [set |-> TRUE, val |-> List(comps)]
    ELSE IF type \in REAC_TYPES THEN [set |-> TRUE, val |-> List(<<whole>>)]
    ELSE [set |-> FALSE, val |-> Absent]

\* lines 124-131: whether hash is set, and to what
hash_field(type, comps, whole) ==
    IF type \in MOL_TYPES THEN [set |-> TRUE, val |-> List(SortSet(Range(comps)))]
    ELSE IF type \in REAC_TYPES THEN [set |-> TRUE, val |-> List(<<whole>>)]
    ELSE [set |-> FALSE, val |-> Absent]

(***************************************************************************)
(* as_dict and as_indigo_object                                            *)
(***************************************************************************)
filtered_fields == {"error_handler", "skip_errors"}

as_dict_handler_only(d) ==
    [k \in {x \in Keys : d[x] # Absent /\ x # "error_handler"} |-> d[k]]

\* lines 199-206
as_dict(d) == [k \in {x \in Keys : d[x] # Absent /\ x \notin filtered_fields} |-> d[k]]

\* lines 208-211: the exception raised, or the argument session.deserialize is called with
as_indigo_object(d) ==
    LET cmf == InstanceAttr(d, "cmf")
        parsed == IntsOf(Split(cmf.chars, " "))
    IN  IF Truthy(cmf) /\ parsed.ok
        THEN [raised |-> "none", deserialize |-> parsed.ints]
        ELSE [raised |-> "ValueError", deserialize |-> <<>>]

(***************************************************************************)
(* Record construction, one step at a time.                                *)
(***************************************************************************)
NotSerialized == <<-1>>

\* the way a guarded step of __set__ ends: on failure check_error decides (lines 62-66)
EndStep(failed, errType, at, next) ==
    LET r == check_error(InstanceAttr(rec, "error_handler"))
    IN  IF ~failed
        THEN /\ pc' = next
             /\ UNCHANGED <<exc, handler_calls>>
        ELSE /\ handler_calls' = handler_calls + (IF r.called THEN 1 ELSE 0)
             /\ pc' = IF r.raises THEN "raised" ELSE next
             /\ exc' = IF r.raises THEN Exc(errType, at) ELSE exc

\* lines 229-234
TemplateInit ==
    /\ pc = "new"
    /\ kind = "IndigoRecordReactionTemplate"
    /\ IF HasKey(kwargs, "indigo_object")
       THEN LET ref == KwGet(kwargs, "indigo_object", None).ref
                res == sanitize_indigo_query_reaction(objs[ref].rxn)
                original == [objs[ref] EXCEPT !.rxn = res.orig]
                cleaned == [desc |-> [objs[ref].desc EXCEPT !.type = "#04: <reaction>"],
                            aromatic |-> FALSE, rxn |-> NoRxn, text |-> res.text]
            IN  IF res.raised
                THEN /\ objs' = [objs EXCEPT ![ref] = original]
                     /\ pc' = "raised"
                     /\ exc' = Exc("ValueError", "sanitize_indigo_query_reaction")
                     /\ UNCHANGED kwargs
                ELSE /\ objs' = [objs EXCEPT ![ref] = original, !["cleaned"] = cleaned]
                     /\ kwargs' = KwSet(KwSet(kwargs, "indigo_object", Obj("cleaned")),
                                        "original_qrxn", Str(rxnfile(original.rxn)))
                     /\ pc' = "super"
                     /\ UNCHANGED exc
       ELSE /\ pc' = "super"
            /\ UNCHANGED <<objs, kwargs, exc>>
    /\ UNCHANGED <<kind, kwargs_in, kw_i, rec, value_dup, handler_calls, step_status,
                   caller_in, serialized, out>>
    /\ UNCHANGED san_vars

\* lines 190-195
RecordInit ==
    /\ \/ pc = "new" /\ kind # "IndigoRecordReactionTemplate"
       \/ pc = "super"
    /\ rec' = [rec EXCEPT
                 !["error_handler"] =
                     IF Truthy(KwGet(kwargs, "skip_errors", Bool(FALSE)))
                     THEN Fn("skip_errors")
                     ELSE KwGet(kwargs, "error_handler", None),
                 !["record_id"] = Str(<<"uuid4">>)]
    /\ kw_i' = 1
    /\ pc' = "setattr"
    /\ UNCHANGED <<kind, kwargs, kwargs_in, objs, value_dup, exc, handler_calls, step_status,
                   caller_in, serialized, out>>
    /\ UNCHANGED san_vars

Descriptors == {"indigo_object", "elastic_response"}

\* lines 196-197, for a keyword that is no descriptor of the class
SetAttr ==
    /\ pc = "setattr"
    /\ kw_i <= Len(kwargs)
    /\ kwargs[kw_i].key \notin Descriptors
    /\ rec' = [rec EXCEPT ![kwargs[kw_i].key] = kwargs[kw_i].val]
    /\ serialized' = IF kwargs[kw_i].key = "cmf" THEN NotSerialized ELSE serialized
    /\ kw_i' = kw_i + 1
    /\ UNCHANGED <<kind, kwargs, kwargs_in, objs, pc, value_dup, exc, handler_calls,
                   step_status, caller_in, out>>
    /\ UNCHANGED san_vars

RECURSIVE SetAll(_, _)
SetAll(d, items) ==
    IF items = <<>> THEN d
    ELSE SetAll([d EXCEPT ![items[1].key] = items[1].val], Tail(items))

\* lines 70-74
WithElasticResponse_set ==
    /\ pc = "setattr"
    /\ kw_i <= Len(kwargs)
    /\ kwargs[kw_i].key = "elastic_response"
    /\ LET value == kwargs[kw_i].val
       IN  /\ rec' = [SetAll(rec, value.source) EXCEPT !["_sort"] = value.sort]
           /\ serialized' = IF \E i \in DOMAIN value.source : value.source[i].key = "cmf"
                            THEN NotSerialized ELSE serialized
    /\ kw_i' = kw_i + 1
    /\ UNCHANGED <<kind, kwargs, kwargs_in, objs, pc, value_dup, exc, handler_calls,
                   step_status, caller_in, out>>
    /\ UNCHANGED san_vars

\* lines 81-86
Clone ==
    /\ pc = "setattr"
    /\ kw_i <= Len(kwargs)
    /\ kwargs[kw_i].key = "indigo_object"
    /\ kw_i' = kw_i + 1
    /\ \E fails \in BOOLEAN :
         /\ step_status' = [step_status EXCEPT
                              !["clone"] = IF fails THEN "IndigoException" ELSE "ok"]
         /\ IF fails
            THEN /\ EndStep(TRUE, "IndigoException", "clone", "setattr")
                 /\ UNCHANGED <<objs, value_dup>>
            ELSE /\ value_dup' = clone_target(kwargs[kw_i].val.ref)
                 /\ objs' = [objs EXCEPT ![value_dup'] = objs[kwargs[kw_i].val.ref]]
                 /\ EndStep(FALSE, "IndigoException", "clone", "aromatize")
    /\ UNCHANGED <<kind, kwargs, kwargs_in, rec, caller_in, serialized, out>>
    /\ UNCHANGED san_vars

\* line 88
Aromatize ==
    /\ pc = "aromatize"
    /\ \E fails \in BOOLEAN :
         /\ step_status' = [step_status EXCEPT
                              !["aromatize"] = IF fails THEN "IndigoException" ELSE "ok"]
         /\ IF fails
            THEN /\ pc' = "raised"
                 /\ exc' = Exc("IndigoException", "aromatize")
                 /\ UNCHANGED objs
            ELSE /\ objs' = [objs EXCEPT ![value_dup].aromatic = TRUE]
                 /\ pc' = "fp_sim"
                 /\ UNCHANGED exc
    /\ UNCHANGED <<kind, kwargs, kwargs_in, kw_i, rec, value_dup, handler_calls, caller_in,
                   serialized, out>>
    /\ UNCHANGED san_vars

\* lines 95-107, for one fingerprint kind
Fingerprint(f) ==
    /\ pc = (IF f = "sim" THEN "fp_sim" ELSE "fp_sub")
    /\ \E fails \in BOOLEAN :
         LET desc == objs[value_dup].desc
             bits == IF f = "sim" THEN desc.simBits ELSE desc.subBits
             \* a failing backend call leaves lines 96-97 done and nothing else
             r == IF fails THEN [ok |-> FALSE, d |-> fp_fields(rec, f, <<>>).d]
                  ELSE fp_fields(rec, f, bits)
             err == IF fails THEN "IndigoException" ELSE "ValueError"
         IN  /\ rec' = r.d
             /\ step_status' = [step_status EXCEPT ![f] = IF r.ok THEN "ok" ELSE err]
             /\ EndStep(~r.ok, err, f, fp_next(f, ~r.ok))
    /\ UNCHANGED <<kind, kwargs, kwargs_in, objs, kw_i, value_dup, caller_in, serialized, out>>
    /\ UNCHANGED san_vars

\* lines 109-114
Serialize ==
    /\ pc = "serialize"
    /\ \E fails \in BOOLEAN :
         /\ rec' = [rec EXCEPT !["cmf"] = IF fails THEN Str(<<>>)
                                          ELSE Str(cmf_of(objs[value_dup].desc.bytes))]
         /\ serialized' = IF fails THEN NotSerialized ELSE objs[value_dup].desc.bytes
         /\ step_status' = [step_status EXCEPT
                              !["serialize"] = IF fails THEN "IndigoException" ELSE "ok"]
         /\ EndStep(fails, "IndigoException", "serialize", "name")
    /\ UNCHANGED <<kind, kwargs, kwargs_in, objs, kw_i, value_dup, caller_in, out>>
    /\ UNCHANGED san_vars

\* lines 116-120
Name ==
    /\ pc = "name"
    /\ \E fails \in BOOLEAN :
         /\ rec' = [rec EXCEPT !["name"] = IF fails THEN Str(<<>>)
                                           ELSE Str(objs[value_dup].desc.name)]
         /\ step_status' = [step_status EXCEPT
                              !["name"] = IF fails THEN "IndigoException" ELSE "ok"]
         /\ EndStep(fails, "IndigoException", "name", "hash")
    /\ UNCHANGED <<kind, kwargs, kwargs_in, objs, kw_i, value_dup, caller_in, serialized, out>>
    /\ UNCHANGED san_vars

\* lines 122-133
Hash ==
    /\ pc = "hash"
    /\ \E fails \in BOOLEAN :
         LET desc == objs[value_dup].desc
             h == hash_field(desc.type, desc.comps, desc.whole)
         IN  /\ rec' = IF ~fails /\ h.set THEN [rec EXCEPT !["hash"] = h.val] ELSE rec
             /\ step_status' = [step_status EXCEPT
                                  !["hash"] = IF fails THEN "IndigoException" ELSE "ok"]
             /\ EndStep(fails, "IndigoException", "hash", "valence")
    /\ UNCHANGED <<kind, kwargs, kwargs_in, objs, kw_i, value_dup, caller_in, serialized, out>>
    /\ UNCHANGED san_vars

\* lines 135-141, and the return to the loop of line 196
CheckBadValence ==
    /\ pc = "valence"
    /\ \E fails \in BOOLEAN :
         /\ rec' = IF fails THEN rec
                   ELSE [rec EXCEPT !["has_error"] =
                                      IF objs[value_dup].desc.bad THEN IntV(1) ELSE IntV(0)]
         /\ step_status' = [step_status EXCEPT
                              !["valence"] = IF fails THEN "IndigoException" ELSE "ok"]
         /\ EndStep(fails, "IndigoException", "valence", "setattr")
    /\ UNCHANGED <<kind, kwargs, kwargs_in, objs, kw_i, value_dup, caller_in, serialized, out>>
    /\ UNCHANGED san_vars

\* the loop of line 196 is exhausted: the constructor returns the record
Constructed ==
    /\ pc = "setattr"
    /\ kw_i > Len(kwargs)
    /\ pc' = "done"
    /\ UNCHANGED <<kind, kwargs, kwargs_in, objs, kw_i, rec, value_dup, exc, handler_calls,
                   step_status, caller_in, serialized, out>>
    /\ UNCHANGED san_vars

\* lines 199-206, called on the constructed record
AsDict ==
    /\ pc = "done"
    /\ out' = [op |-> "as_dict", val |-> as_dict(rec)]
    /\ UNCHANGED <<kind, kwargs, kwargs_in, objs, pc, kw_i, rec, value_dup, exc, handler_calls,
                   step_status, caller_in, serialized>>
    /\ UNCHANGED san_vars

\* lines 208-211, called on the constructed record
AsIndigoObject ==
    /\ pc = "done"
    /\ out' = [op |-> "as_indigo_object", val |-> as_indigo_object(rec)]
    /\ UNCHANGED <<kind, kwargs, kwargs_in, objs, pc, kw_i, rec, value_dup, exc, handler_calls,
                   step_status, caller_in, serialized>>
    /\ UNCHANGED san_vars

(***************************************************************************)
(* The constructions checked: structures that differ in one descriptor at  *)
(* a time under each error policy, keyword arguments in every order, and   *)
(* reaction templates.                                                     *)
(***************************************************************************)
DefaultDesc ==
    Desc(<<"1", " ", "1", "2">>, <<"2", " ", "5">>, <<7, 205>>, <<"m">>,
         "#02: <molecule>", <<3, 1>>, 9, FALSE)

BitLists == {<<>>, <<"1", " ", "1", "2">>, <<"2", " ", "5">>, <<"7", " ", "x">>, <<"3", " ">>}
ByteVals == {0, 205}
HashVals == {1, 2, 3}

FpDescs == {[DefaultDesc EXCEPT !.simBits = a, !.subBits = b] : a, b \in BitLists}
SerDescs == {[DefaultDesc EXCEPT !.bytes = b] : b \in SeqUpTo(ByteVals, MaxBytes)}
HashDescs ==
    {[DefaultDesc EXCEPT !.type = t, !.comps = c] :
        t \in MOL_TYPES, c \in SeqUpTo(HashVals, MaxComps)}
    \cup {[DefaultDesc EXCEPT !.type = t] : t \in REAC_TYPES \cup OtherTypes}
ValenceDescs == {[DefaultDesc EXCEPT !.bad = b] : b \in BOOLEAN}
StructDescs == FpDescs \cup SerDescs \cup HashDescs \cup ValenceDescs

KindOf(desc) ==
    IF desc.type \in REAC_TYPES THEN "IndigoRecordReaction" ELSE "IndigoRecordMolecule"

PolicyArgs ==
    {<<>>,
     <<Kw("skip_errors", Bool(TRUE))>>,
     <<Kw("error_handler", Fn("returning_handler"))>>,
     <<Kw("error_handler", Fn("raising_handler"))>>}

StructScenarios ==
    {[kind |-> KindOf(d),
      kwargs |-> p \o <<Kw("indigo_object", Obj("caller"))>>,
      caller |-> Structure(d, NoRxn)] : d \in StructDescs, p \in PolicyArgs}

\* a search hit: {"_source": {...}, "sort": [...]}
Response ==
    [tag |-> "dict",
     source |-> <<Kw("name", Str(<<"e">>)), Kw("cmf", Str(<<"7", " ", "2", "0", "5">>))>>,
     sort |-> List(<<1>>)]

KwPool ==
    {Kw("skip_errors", Bool(TRUE)),
     Kw("error_handler", Fn("returning_handler")),
     Kw("error_handler", Fn("raising_handler")),
     Kw("indigo_object", Obj("caller")),
     Kw("name", Str(<<"k">>)),
     Kw("elastic_response", Response)}

KwSeqs ==
    {s \in SeqUpTo(KwPool, MaxKwargs) :
        \A i, j \in DOMAIN s : i # j => s[i].key # s[j].key}

KwScenarios ==
    {[kind |-> "IndigoRecordMolecule", kwargs |-> s, caller |-> Structure(DefaultDesc, NoRxn)] :
        s \in KwSeqs}

AtomC == Atom(<<"C">>, FALSE, FALSE, {"substituents"})
AtomQ == Atom(<<"Q">>, FALSE, FALSE, NoCons)
AtomR == Atom(<<"R">>, FALSE, TRUE, NoCons)
TemplateMols == {Mol(<<AtomC>>), Mol(<<AtomQ, AtomR>>), Mol(<<AtomQ, AtomC>>)}
TemplateRxns ==
    {[reactants |-> r, products |-> p] : r, p \in SeqUpTo(TemplateMols, MaxMols)}
TemplateDesc == [DefaultDesc EXCEPT !.type = "#05: <query reaction>"]

TemplateScenarios ==
    {[kind |-> "IndigoRecordReactionTemplate",
      kwargs |-> p \o <<Kw("indigo_object", Obj("caller"))>>,
      caller |-> Structure(TemplateDesc, x)] : x \in TemplateRxns, p \in PolicyArgs}
    \cup {[kind |-> "IndigoRecordReactionTemplate",
           kwargs |-> <<Kw("elastic_response", Response)>>,
           caller |-> Structure(TemplateDesc, NoRxn)]}

Scenarios == StructScenarios \cup KwScenarios \cup TemplateScenarios

SanIdle ==
    /\ query_mol = Mol(<<>>)
    /\ mol_in = Mol(<<>>)
    /\ atom_it = Begin
    /\ atoms_to_remove = <<>>
    /\ san_pc = "idle"
    /\ remove_log = <<>>

Init ==
    /\ SanIdle
    /\ \E sc \in Scenarios :
         /\ kind = sc.kind
         /\ kwargs = sc.kwargs
         /\ kwargs_in = sc.kwargs
         /\ objs = [r \in Refs |-> IF r = "caller" THEN sc.caller ELSE NoObj]
         /\ caller_in = sc.caller
    /\ pc = "new"
    /\ kw_i = 0
    /\ rec = EmptyDict
    /\ value_dup = "none"
    /\ exc = NoExc
    /\ handler_calls = 0
    /\ step_status = [st \in Steps |-> "none"]
    /\ serialized = NotSerialized
    /\ out = [op |-> "none"]

Next ==
    \/ TemplateInit
    \/ RecordInit
    \/ SetAttr
    \/ WithElasticResponse_set
    \/ Clone
    \/ Aromatize
    \/ Fingerprint("sim")
    \/ Fingerprint("sub")
    \/ Serialize
    \/ Name
    \/ Hash
    \/ CheckBadValence
    \/ Constructed
    \/ AsDict
    \/ AsIndigoObject

Spec == Init /\ [][Next]_vars

(***************************************************************************)
(* sanitize_indigo_query_molecule run on its own.                          *)
(***************************************************************************)
RecIdle ==
    /\ kind = "none"
    /\ kwargs = <<>>
    /\ kwargs_in = <<>>
    /\ objs = [r \in Refs |-> NoObj]
    /\ caller_in = NoObj
    /\ pc = "idle"
    /\ kw_i = 0
    /\ rec = EmptyDict
    /\ value_dup = "none"
    /\ exc = NoExc
    /\ handler_calls = 0
    /\ step_status = [st \in Steps |-> "none"]
    /\ serialized = NotSerialized
    /\ out = [op |-> "none"]

InitSan ==
    /\ RecIdle
    /\ mol_in \in SanMolecules
    /\ query_mol = mol_in
    /\ atom_it = Begin
    /\ atoms_to_remove = <<>>
    /\ san_pc = "for"
    /\ remove_log = <<>>

NextSan ==
    \/ ForNextAtom
    \/ ScanAtom
    \/ RemoveAtoms
    \/ ReturnMol

SpecSan == InitSan /\ [][NextSan]_vars

(***************************************************************************)
(* Properties.                                                             *)
(***************************************************************************)
Errors == {"IndigoException", "ValueError"}
HasBoth(sym) == (\E i \in DOMAIN sym : sym[i] = "[") /\ (\E i \in DOMAIN sym : sym[i] = "]")
QuerySymbols ==
    {<<"A">>, <<"Q">>, <<"X">>, <<"M">>, <<"A", "H">>, <<"Q", "H">>, <<"X", "H">>,
     <<"M", "H">>, <<"N", "O", "T">>, <<"R">>, <<"*">>}
QueryOnly(atom) ==
    atom.pseudo \/ atom.rsite \/ atom.symbol \in QuerySymbols \/ HasBoth(atom.symbol)
SameAtom(a, b) == a.symbol = b.symbol /\ a.pseudo = b.pseudo /\ a.rsite = b.rsite
PlainQ == Atom(<<"Q">>, FALSE, FALSE, NoCons)
PlainC == Atom(<<"C">>, FALSE, FALSE, NoCons)

C9_SingleRemovalAfterScan ==
    /\ \A i \in DOMAIN remove_log : remove_log[i].scan_done
    /\ Len(remove_log) <= 1
    /\ (san_pc = "returned" /\ mol_in.atoms # <<>> =>
           /\ Len(remove_log) = 1
           /\ Range(remove_log[1].indices) = {i \in mol_in.live : QueryOnly(mol_in.atoms[i])})

IsTemplate == kind = "IndigoRecordReactionTemplate"
SanitizeError == Exc("ValueError", "sanitize_indigo_query_reaction")
NothingConcrete(rxn) ==
    /\ \A i \in DOMAIN rxn.reactants :
          \A a \in rxn.reactants[i].live : QueryOnly(rxn.reactants[i].atoms[a])
    /\ \A i \in DOMAIN rxn.products :
          \A a \in rxn.products[i].live : QueryOnly(rxn.products[i].atoms[a])

\* C3: constructing a reaction template from a structure raises the ValueError of
\* sanitize_indigo_query_reaction exactly when no reactant and no product of the
\* reaction has an atom that survives cleaning; otherwise a cleaned reaction is
\* returned; and when it is raised, under every error policy, the handler has not been
\* invoked, nothing of the record has been set and construction has ended.
C3_SanitizationFailure ==
    (IsTemplate /\ HasKey(kwargs_in, "indigo_object") /\ pc # "new") =>
        /\ (exc = SanitizeError) <=> NothingConcrete(caller_in.rxn)
        /\ ~NothingConcrete(caller_in.rxn) =>
              /\ objs["cleaned"] # NoObj
              /\ KwGet(kwargs, "indigo_object", None) = Obj("cleaned")
        /\ exc = SanitizeError =>
              /\ pc = "raised"
              /\ handler_calls = 0
              /\ rec = EmptyDict
              /\ out.op = "none"

C3_Witness ==
    /\ IsTemplate
    /\ exc = SanitizeError
    /\ KwGet(kwargs_in, "skip_errors", Bool(FALSE)) = Bool(TRUE)
    /\ caller_in.rxn.reactants # <<>>

\* C4: the caller's structure object is in the state it was supplied in throughout
\* construction (aromatize, removeConstraints and removeAtoms act on clones), and the
\* original_qrxn of a reaction template is the rxnfile text of the reaction as supplied.
C4_CallerObjectUntouched ==
    /\ objs["caller"] = caller_in
    /\ (IsTemplate /\ rec["original_qrxn"] # Absent =>
           rec["original_qrxn"] = Str(rxnfile(caller_in.rxn)))

C4_Witness ==
    /\ IsTemplate
    /\ pc = "done"
    /\ rec["original_qrxn"] = Str(rxnfile(caller_in.rxn))
    /\ objs["cleaned"].text # rxnfile(caller_in.rxn)
    /\ objs["dup"] # NoObj
    /\ objs["dup"].aromatic

Ascending(l) == \A i, j \in DOMAIN l : i < j => l[i] < l[j]

\* C5: when the hash step has succeeded for a structure whose internal type is in
\* MOL_TYPES, hash is the strictly ascending list of the distinct component hashes (so
\* it depends only on the set of component hashes, not on their order or repetition);
\* for a type in REAC_TYPES it is the one-element list of the whole-object hash.
C5_HashField ==
    step_status["hash"] = "ok" =>
        LET desc == objs[value_dup].desc
        IN  /\ desc.type \in MOL_TYPES =>
                  /\ rec["hash"].tag = "list"
                  /\ Ascending(rec["hash"].items)
                  /\ Range(rec["hash"].items) = Range(desc.comps)
            /\ desc.type \in REAC_TYPES => rec["hash"] = List(<<desc.whole>>)

C5_Witness ==
    /\ step_status["hash"] = "ok"
    /\ objs[value_dup].desc.type = "#02: <molecule>"
    /\ objs[value_dup].desc.comps = <<2, 1>>
    /\ rec["hash"] = List(<<1, 2>>)

GuardedFailures == {st \in Steps \ {"aromatize"} : step_status[st] \in Errors}

\* C6: as_indigo_object raises ValueError whenever cmf is None or empty, whatever the
\* error policy, and the error handler has been invoked only for the failed steps of
\* population; when cmf is non-empty and was written by population, it passes to
\* session.deserialize exactly the integer sequence serialize() returned.
C6_AsIndigoObject ==
    out.op = "as_indigo_object" =>
        /\ handler_calls = (IF Truthy(InstanceAttr(rec, "error_handler"))
                            THEN Cardinality(GuardedFailures) ELSE 0)
        /\ ~Truthy(InstanceAttr(rec, "cmf")) => out.val.raised = "ValueError"
        /\ (Truthy(InstanceAttr(rec, "cmf")) /\ serialized # NotSerialized) =>
              /\ out.val.raised = "none"
              /\ out.val.deserialize = serialized

C6_Witness ==
    /\ out.op = "as_indigo_object"
    /\ out.val.raised = "none"
    /\ out.val.deserialize = <<0, 205>>
    /\ serialized = <<0, 205>>

PresentKeys(d) == {k \in Keys : d[k] # Absent}

\* C7: as_dict returns every field of the instance __dict__ except error_handler and
\* skip_errors, with its value, whatever keyword arguments the record was built with
\* and in whatever order; error_handler and skip_errors are never keys of the result.
C7_AsDict ==
    out.op = "as_dict" =>
        /\ DOMAIN out.val = PresentKeys(rec) \ {"error_handler", "skip_errors"}
        /\ \A k \in DOMAIN out.val : out.val[k] = rec[k]
        /\ "record_id" \in DOMAIN out.val
        /\ \A i \in DOMAIN kwargs_in :
              kwargs_in[i].key \notin {"error_handler", "skip_errors", "indigo_object",
                                       "elastic_response"}
                  => kwargs_in[i].key \in DOMAIN out.val

C7_Witness ==
    /\ out.op = "as_dict"
    /\ rec["skip_errors"] = Bool(TRUE)
    /\ HasKey(kwargs_in, "indigo_object")
    /\ HasKey(kwargs_in, "elastic_response")
    /\ DOMAIN out.val = {"record_id", "name", "cmf", "_sort"}

\* C8: a record constructed with both a name argument and an indigo_object (and no
\* elastic_response) ends with the name argument as its name, in either order.
C8_NameArgumentWins ==
    (/\ pc = "done"
     /\ HasKey(kwargs_in, "name")
     /\ HasKey(kwargs_in, "indigo_object")
     /\ ~HasKey(kwargs_in, "elastic_response")) =>
        rec["name"] = KwGet(kwargs_in, "name", None)

SkipOnly ==
    /\ ~IsTemplate
    /\ HasKey(kwargs_in, "indigo_object")
    /\ KwGet(kwargs_in, "skip_errors", Bool(FALSE)) = Bool(TRUE)
    /\ \A i \in DOMAIN kwargs_in : kwargs_in[i].key \in {"skip_errors", "indigo_object"}

\* C1: with skip_errors=True, constructing a record from a structure object never
\* raises, whichever backend calls fail, and every extraction that did not succeed
\* leaves its default: sim_fingerprint = [], sim_fingerprint_len = 0, cmf = "",
\* name = "".
C1_SkipNeverRaises ==
    SkipOnly =>
        /\ pc # "raised"
        /\ pc = "done" =>
              /\ step_status["sim"] # "ok" =>
                    /\ rec["sim_fingerprint"] = List(<<>>)
                    /\ rec["sim_fingerprint_len"] = IntV(0)
              /\ step_status["serialize"] # "ok" => rec["cmf"] = Str(<<>>)
              /\ step_status["name"] # "ok" => rec["name"] = Str(<<>>)

\* the values a fingerprint kind gets from its own computation alone
FpComputed(f) ==
    LET desc == objs[value_dup].desc
        bits == IF f = "sim" THEN desc.simBits ELSE desc.subBits
    IN  IF step_status[f] = "ok" /\ bits # <<>> THEN IntsOf(Split(bits, " ")).ints ELSE <<>>
FpAsComputed(f) ==
    /\ step_status[f] # "none"
    /\ rec[IF f = "sim" THEN "sim_fingerprint" ELSE "sub_fingerprint"] = List(FpComputed(f))
    /\ rec[IF f = "sim" THEN "sim_fingerprint_len" ELSE "sub_fingerprint_len"]
           = IntV(Len(FpComputed(f)))
HandlerReturns ==
    InstanceAttr(rec, "error_handler") \in {Fn("skip_errors"), Fn("returning_handler")}

\* C10 as stated: under every error policy, once construction has ended after a
\* failure of the similarity fingerprint, sub_fingerprint and sub_fingerprint_len hold
\* the values the substructure fingerprint computes.
C10_IndependentUnderEveryPolicy ==
    (pc \in {"done", "raised"} /\ step_status["sim"] \in Errors) => FpAsComputed("sub")

\* C10 amended: when the error handler in effect returns normally (skip_errors=True or
\* a handler that does not raise), a failure of the similarity fingerprint is followed
\* by the substructure fingerprint step, which leaves sub_fingerprint and
\* sub_fingerprint_len at the values it computes; and a failure of the substructure
\* fingerprint leaves sim_fingerprint and sim_fingerprint_len at their computed values.
C10_IndependentWhenHandlerReturns ==
    /\ (step_status["sim"] \in Errors /\ HandlerReturns) =>
           \/ pc = "fp_sub"
           \/ FpAsComputed("sub")
    /\ step_status["sub"] \in Errors => FpAsComputed("sim")

C10_Witness ==
    /\ pc = "done"
    /\ step_status["sim"] = "ValueError"
    /\ step_status["sub"] = "ok"
    /\ rec["sub_fingerprint"] = List(<<2, 5>>)
    /\ rec["sub_fingerprint_len"] = IntV(2)
    /\ rec["sim_fingerprint"] = List(<<>>)
    /\ InstanceAttr(rec, "error_handler") = Fn("skip_errors")

====
